---- MODULE Spec2Model ----
\* Model of gocover-html (html.go): the coverage profile -> HTML report pipeline.
\*
\* Strings that the program builds (range strings, the data-line attribute, file
\* names) are sequences of one-character strings, so that formatting and joining
\* are computed rather than assumed.
\* float64 values are modelled as exact non-negative rationals in lowest terms,
\* plus the IEEE-754 special values NaN and +Inf; rounding is not modelled.
EXTENDS Integers, Sequences, FiniteSets, TLC

\* ---------------------------------------------------------------- bounds
MaxFiles == 2
MaxBlocks == 3

\* ---------------------------------------------------------------- float64
RECURSIVE GCD(_, _)
GCD(a, b) == IF b = 0 THEN a ELSE GCD(b, a % b)

NaN == [kind |-> "NaN", n |-> 0, d |-> 0]
Inf == [kind |-> "Inf", n |-> 0, d |-> 0]
Unset == [kind |-> "unset", n |-> 0, d |-> 0]

\* the float64 holding n/d (n >= 0, d > 0)
Num(n, d) == LET g == GCD(n, d) IN [kind |-> "num", n |-> n \div g, d |-> d \div g]

\* float64(i) of a non-negative integer
float64(i) == Num(i, 1)

\* x + y
FAdd(x, y) ==
    IF x.kind = "NaN" \/ y.kind = "NaN" THEN NaN
    ELSE IF x.kind = "Inf" \/ y.kind = "Inf" THEN Inf
    ELSE Num(x.n * y.d + y.n * x.d, x.d * y.d)

\* x * y
FMul(x, y) ==
    IF x.kind = "NaN" \/ y.kind = "NaN" THEN NaN
    ELSE IF x.kind = "Inf" \/ y.kind = "Inf"
         THEN (IF (x.kind = "num" /\ x.n = 0) \/ (y.kind = "num" /\ y.n = 0) THEN NaN ELSE Inf)
    ELSE Num(x.n * y.n, x.d * y.d)

\* x / y : 0/0 is NaN and x/0 is +Inf, as for Go's float64
FDiv(x, y) ==
    IF x.kind = "NaN" \/ y.kind = "NaN" THEN NaN
    ELSE IF x.kind = "Inf" THEN (IF y.kind = "Inf" THEN NaN ELSE Inf)
    ELSE IF y.kind = "Inf" THEN Num(0, 1)
    ELSE IF y.n = 0 THEN (IF x.n = 0 THEN NaN ELSE Inf)
    ELSE Num(x.n * y.d, x.d * y.n)

\* ---------------------------------------------------------------- strings
DigitChars == <<"0", "1", "2", "3", "4", "5", "6", "7", "8", "9">>

\* the %d verb of fmt.Sprintf, for a non-negative integer
RECURSIVE Itoa(_)
Itoa(i) == IF i < 10 THEN <<DigitChars[i + 1]>> ELSE Itoa(i \div 10) \o <<DigitChars[(i % 10) + 1]>>

\* fmt.Sprintf("%d-%d", s, e)
Sprintf(s, e) == Itoa(s) \o <<"-">> \o Itoa(e)

\* strings.Join(a, sep)
RECURSIVE Join(_, _)
Join(a, sep) ==
    IF Len(a) = 0 THEN <<>>
    ELSE IF Len(a) = 1 THEN a[1]
    ELSE a[1] \o sep \o Join(Tail(a), sep)

Range(s) == {s[i] : i \in DOMAIN s}

\* ---------------------------------------------------------------- removeArrayDuplicates
\* a mutant: the list is returned as it is
removeArrayDuplicatesKeepAll(e) == {e}

\* The keys of the map, in the order the map iteration yields them: any order.
removeArrayDuplicates(e) ==
    LET enc == Range(e)
    IN  {res \in [1..Cardinality(enc) -> enc] : Range(res) = enc}

\* ---------------------------------------------------------------- htmlGen
\* the loop over profile.Blocks collecting the range of every block with Count 0
RECURSIVE uncoverdLines(_)
uncoverdLines(blocks) ==
    IF blocks = <<>> THEN <<>>
    ELSE LET block == Head(blocks)
         IN  (IF block.Count # 0 THEN <<>> ELSE <<Sprintf(block.StartLine, block.EndLine)>>)
             \o uncoverdLines(Tail(blocks))

\* The bodies htmlGen can write for src and profile (one per map iteration order).
htmlGen(src, profile) ==
    {[dataLine |-> Join(u, <<",">>), src |-> src] :
        u \in removeArrayDuplicates(uncoverdLines(profile.Blocks))}

\* ---------------------------------------------------------------- percentCovered
RECURSIVE total(_)
total(blocks) == IF blocks = <<>> THEN 0 ELSE Head(blocks).NumStmt + total(Tail(blocks))

RECURSIVE covered(_)
covered(blocks) ==
    IF blocks = <<>> THEN 0
    ELSE (IF Head(blocks).Count > 0 THEN Head(blocks).NumStmt ELSE 0) + covered(Tail(blocks))

\* a mutant: the guard on total == 0 is missing
percentCoveredNoGuard(p) ==
    FMul(FDiv(float64(covered(p.Blocks)), float64(total(p.Blocks))), float64(100))

\* a mutant: every block counts as covered, whatever its hit count
percentCoveredAllHit(p) ==
    IF total(p.Blocks) = 0 THEN float64(0)
    ELSE FMul(FDiv(float64(total(p.Blocks)), float64(total(p.Blocks))), float64(100))

percentCovered(p) ==
    IF total(p.Blocks) = 0 THEN float64(0)
    ELSE FMul(FDiv(float64(covered(p.Blocks)), float64(total(p.Blocks))), float64(100))

\* ---------------------------------------------------------------- totalCoverage
RECURSIVE sumCoverage(_, _)
sumCoverage(x, files) ==
    IF files = <<>> THEN x ELSE sumCoverage(FAdd(x, Head(files).Coverage), Tail(files))

\* a mutant: the loop assigns instead of accumulating
totalCoverageLast(p) ==
    FDiv(IF p.Files = <<>> THEN float64(0) ELSE p.Files[Len(p.Files)].Coverage,
         float64(Len(p.Files)))

totalCoverage(p) == FDiv(sumCoverage(float64(0), p.Files), float64(Len(p.Files)))

\* ---------------------------------------------------------------- getTemplateData pieces
\* a mutant: every mode but "count" raises the flag
setFlagNotCount(set, profile) == IF profile.Mode # "count" THEN TRUE ELSE set

\* d.Set after the test of profile.Mode
setFlag(set, profile) == IF profile.Mode = "set" THEN TRUE ELSE set

\* a mutant: IDs count from one
newTemplateFileOneBased(k, fn, body, profile) ==
    [Name |-> fn, Body |-> body, Coverage |-> percentCovered(profile), ID |-> k + 1]

\* the templateFile appended for the k-th profile
newTemplateFile(k, fn, body, profile) ==
    [Name |-> fn, Body |-> body, Coverage |-> percentCovered(profile), ID |-> k]

\* ---------------------------------------------------------------- inputs
\* cover.ParseProfiles yields one Profile per file, all with the mode of the
\* profile's header; counts and line numbers are parsed from [0-9]+.
Modes == {"set", "count", "atomic"}
Block(s, e, n, c) == [StartLine |-> s, EndLine |-> e, NumStmt |-> n, Count |-> c]

\* the block records of the one-file runs (the ranges 6-10 and 10-20 overlap)
BlockSet ==
    {Block(1, 5, n, c) : n \in {0, 3}, c \in {0, 2}}
        \cup {Block(6, 10, n, c) : n \in {0, 2}, c \in {0, 1, 2}}
        \cup {Block(10, 20, 5, c) : c \in {0, 1}}

BlockSeqs == UNION {[1..n -> BlockSet] : n \in 0..MaxBlocks}

\* the name of the i-th file of the profile (names are distinct)
FileName(i) == Itoa(i) \o <<".", "g", "o">>

Profile(i, mode, blocks) == [FileName |-> FileName(i), Mode |-> mode, Blocks |-> blocks]

\* block lists of the files of the pipeline runs
Catalogue ==
    { <<>>,
      <<Block(1, 5, 3, 2)>>,
      <<Block(1, 5, 3, 0), Block(6, 10, 2, 2)>>,
      <<Block(10, 20, 5, 0), Block(10, 20, 5, 0)>>,
      <<Block(1, 5, 0, 1), Block(6, 10, 0, 0)>> }

ProfileLists(mode, blockLists) ==
    UNION {{[i \in 1..n |-> Profile(i - 1, mode, bl[i])] : bl \in [1..n -> blockLists]} :
              n \in 0..MaxFiles}

\* the contents of the source file named fn
Source(fn) == [file |-> fn]

Assets == {"PrismCSS", "PrismJS", "BootstrapCSS", "JQuery", "BootstrapJS", "Popper"}

\* ---------------------------------------------------------------- state
VARIABLES
    input,      \* what the profile file holds: [parseErr, profiles]
    outfile,    \* the -o flag, as a string ("" when not given)
    pc,         \* position of htmlOutput
    profiles,   \* result of cover.ParseProfiles
    d,          \* templateData being built: [Files, Set]
    k,          \* loop index of getTemplateData
    visited,    \* indices of the profiles whose loop iteration has started
    err,        \* the error htmlOutput returns ("nil" when none)
    tmpDir,     \* whether ioutil.TempDir has created a directory
    out,        \* the output file: "none", "empty", "partial", "full"
    closed,     \* whether out.Close() succeeded
    totalCov,   \* tplVals["totalCov"]
    browser     \* "none", "started", "failed"

vars == <<input, outfile, pc, profiles, d, k, visited, err, tmpDir, out, closed, totalCov, browser>>

InitRest ==
    /\ pc = "getTemplateData"
    /\ profiles = <<>>
    /\ d = [Files |-> <<>>, Set |-> FALSE]
    /\ k = 0
    /\ visited = {}
    /\ err = "nil"
    /\ tmpDir = FALSE
    /\ out = "none"
    /\ closed = FALSE
    /\ totalCov = Unset
    /\ browser = "none"

\* a run of the whole pipeline
Init ==
    /\ input \in {[parseErr |-> TRUE, profiles |-> <<>>]}
                 \cup {[parseErr |-> FALSE, profiles |-> ps] :
                          ps \in UNION {ProfileLists(m, Catalogue) : m \in Modes}}
    /\ outfile \in {"", "cover.html"}
    /\ InitRest

\* a run over one file with arbitrary blocks
InitCalc ==
    /\ input \in {[parseErr |-> FALSE, profiles |-> <<Profile(0, "set", bs)>>] : bs \in BlockSeqs}
    /\ outfile = "cover.html"
    /\ InitRest

\* ---------------------------------------------------------------- getTemplateData
\* profiles, err := cover.ParseProfiles(profile)
ParseProfiles ==
    /\ pc = "getTemplateData"
    /\ IF input.parseErr
         THEN /\ err' = "ParseProfiles"
              /\ pc' = "return"
              /\ UNCHANGED profiles
         ELSE /\ profiles' = input.profiles
              /\ pc' = "loop"
              /\ UNCHANGED err
    /\ UNCHANGED <<input, outfile, d, k, visited, tmpDir, out, closed, totalCov, browser>>

\* a mutant: the loop goes on to the next profile after an error
iterateFailContinue(e) ==
    /\ err' = e
    /\ k' = k + 1
    /\ pc' = "loop"

\* return d, err out of the loop, and htmlOutput's return of that error
iterateFail(e) ==
    /\ err' = e
    /\ k' = k
    /\ pc' = "return"

\* one iteration of the loop over the profiles
Iterate ==
    /\ pc = "loop"
    /\ k < Len(profiles)
    /\ visited' = visited \cup {k}
    /\ LET profile == profiles[k + 1]
           fn == profile.FileName
           set == setFlag(d.Set, profile)
       IN  \/ /\ iterateFail("findFile")
              /\ d' = [d EXCEPT !.Set = set]
           \/ /\ iterateFail("ReadFile")
              /\ d' = [d EXCEPT !.Set = set]
           \/ \E body \in htmlGen(Source(fn), profile) :
                 /\ d' = [Files |-> Append(d.Files, newTemplateFile(k, fn, body, profile)),
                          Set |-> set]
                 /\ k' = k + 1
                 /\ pc' = "loop"
                 /\ UNCHANGED err
    /\ UNCHANGED <<input, outfile, profiles, tmpDir, out, closed, totalCov, browser>>

\* return d, nil and htmlOutput's test of the error
LoopDone ==
    /\ pc = "loop"
    /\ k >= Len(profiles)
    /\ err' = "nil"
    /\ pc' = "create"
    /\ UNCHANGED <<input, outfile, profiles, d, k, visited, tmpDir, out, closed, totalCov, browser>>

\* ---------------------------------------------------------------- htmlOutput
\* outfile == "": ioutil.TempDir then os.Create of coverage.html in it
CreateTemp ==
    /\ pc = "create"
    /\ outfile = ""
    /\ \/ /\ err' = "TempDir"
          /\ pc' = "return"
          /\ UNCHANGED <<tmpDir, out>>
       \/ /\ tmpDir' = TRUE
          /\ err' = "Create"
          /\ pc' = "return"
          /\ UNCHANGED out
       \/ /\ tmpDir' = TRUE
          /\ out' = "empty"
          /\ pc' = "getTemplate"
          /\ UNCHANGED err
    /\ UNCHANGED <<input, outfile, profiles, d, k, visited, closed, totalCov, browser>>

\* outfile != "": os.Create(outfile)
CreateNamed ==
    /\ pc = "create"
    /\ outfile # ""
    /\ \/ /\ err' = "Create"
          /\ pc' = "return"
          /\ UNCHANGED out
       \/ /\ out' = "empty"
          /\ pc' = "getTemplate"
          /\ UNCHANGED err
    /\ UNCHANGED <<input, outfile, profiles, d, k, visited, tmpDir, closed, totalCov, browser>>

\* getTemplate: parse the template, read the assets, build tplVals, execute
getTemplate ==
    /\ pc = "getTemplate"
    /\ \/ /\ pc' = "panic"                       \* template.Must panics
          /\ UNCHANGED <<err, totalCov, out>>
       \/ \E a \in Assets :                      \* ioutil.ReadFile of an asset fails
             /\ err' = a
             /\ pc' = "return"
             /\ UNCHANGED <<totalCov, out>>
       \/ /\ totalCov' = totalCoverage(d)
          /\ \/ \E written \in {"empty", "partial"} :   \* it.Execute fails on the way
                   /\ out' = written
                   /\ err' = "Execute"
                   /\ pc' = "return"
             \/ /\ out' = "full"
                /\ pc' = "Close"
                /\ UNCHANGED err
    /\ UNCHANGED <<input, outfile, profiles, d, k, visited, tmpDir, closed, browser>>

\* err = out.Close() and the test that follows
Close ==
    /\ pc = "Close"
    /\ \/ /\ err' = "Close"
          /\ pc' = "return"
          /\ UNCHANGED closed
       \/ /\ closed' = TRUE
          /\ pc' = IF outfile = "" THEN "startBrowser" ELSE "return"
          /\ UNCHANGED err
    /\ UNCHANGED <<input, outfile, profiles, d, k, visited, tmpDir, out, totalCov, browser>>

\* startBrowser("file://" + out.Name()); its failure is only reported
StartBrowser ==
    /\ pc = "startBrowser"
    /\ browser' \in {"started", "failed"}
    /\ pc' = "return"
    /\ UNCHANGED <<input, outfile, profiles, d, k, visited, err, tmpDir, out, closed, totalCov>>

Next ==
    \/ ParseProfiles
    \/ Iterate
    \/ LoopDone
    \/ CreateTemp
    \/ CreateNamed
    \/ getTemplate
    \/ Close
    \/ StartBrowser

Spec == Init /\ [][Next]_vars

\* getTemplateData alone, on one file
NextCalc ==
    \/ ParseProfiles
    \/ Iterate
    \/ LoopDone

SpecCalc == InitCalc /\ [][NextCalc]_vars

\* ================================================================ properties
Zero == [kind |-> "num", n |-> 0, d |-> 1]
Forty == [kind |-> "num", n |-> 40, d |-> 1]
Hundred == [kind |-> "num", n |-> 100, d |-> 1]

\* getTemplateData has returned d with a nil error
LoopOK ==
    \/ pc \in {"create", "getTemplate", "Close", "startBrowser", "panic"}
    \/ pc = "return" /\ err \notin {"ParseProfiles", "findFile", "ReadFile"}

\* htmlOutput has ended with an error or a panic
Failed == pc = "panic" \/ (pc = "return" /\ err # "nil")

\* sum of the statement counts of the blocks at the indices I
RECURSIVE StmtSum(_, _)
StmtSum(blocks, I) ==
    IF I = {} THEN 0
    ELSE LET i == CHOOSE x \in I : TRUE IN blocks[i].NumStmt + StmtSum(blocks, I \ {i})

\* the range strings of a data-line attribute (the text between its commas)
RECURSIVE SplitComma(_)
SplitComma(s) ==
    IF \E i \in DOMAIN s : s[i] = ","
    THEN LET i == CHOOSE x \in DOMAIN s : s[x] = "," /\ \A y \in 1..(x - 1) : s[y] # ","
         IN  <<SubSeq(s, 1, i - 1)>> \o SplitComma(SubSeq(s, i + 1, Len(s)))
    ELSE <<s>>

RangeStrings(dataLine) == IF dataLine = <<>> THEN <<>> ELSE SplitComma(dataLine)

\* "start-end" of a block, written out for the line ranges of the model
RangeText(b) ==
    CASE b.StartLine = 1 /\ b.EndLine = 5 -> <<"1", "-", "5">>
      [] b.StartLine = 6 /\ b.EndLine = 10 -> <<"6", "-", "1", "0">>
      [] b.StartLine = 10 /\ b.EndLine = 20 -> <<"1", "0", "-", "2", "0">>

\* the block list without the later copies of a block record
RECURSIVE Dedup(_)
Dedup(blocks) ==
    IF blocks = <<>> THEN <<>>
    ELSE LET init == Dedup(SubSeq(blocks, 1, Len(blocks) - 1))
             last == blocks[Len(blocks)]
         IN  IF last \in Range(init) THEN init ELSE Append(init, last)

\* C1: the aggregate handed to the template for a report with zero files is 0.
C1_EmptyReportIsZero ==
    (totalCov # Unset /\ Len(d.Files) = 0) => totalCov = Zero

\* C2: a file whose blocks' statement counts sum to 0 (no blocks, or all blocks
\* with NumStmt 0, whatever their hit counts) has coverage exactly 0.
C2_ZeroTotalIsZero ==
    \A i \in DOMAIN d.Files :
        (\A j \in DOMAIN profiles[i].Blocks : profiles[i].Blocks[j].NumStmt = 0)
            => d.Files[i].Coverage = Zero

C2_Witness ==
    \E i \in DOMAIN d.Files :
        /\ Len(profiles[i].Blocks) = 2
        /\ \A j \in DOMAIN profiles[i].Blocks : profiles[i].Blocks[j].NumStmt = 0
        /\ \E j \in DOMAIN profiles[i].Blocks : profiles[i].Blocks[j].Count > 0
        /\ d.Files[i].Coverage = Zero

\* C3: with total > 0 the coverage of a file is covered/total*100, total being
\* the sum of NumStmt over all blocks and covered the sum over exactly the blocks
\* with Count > 0; [(1,5,3,0),(6,10,2,2)] gives 40 and [(1,5,3,2)] gives 100.
C3_PercentIsCoveredOverTotal ==
    \A i \in DOMAIN d.Files :
        LET bs == profiles[i].Blocks
            T == StmtSum(bs, DOMAIN bs)
            C == StmtSum(bs, {j \in DOMAIN bs : bs[j].Count > 0})
            p == d.Files[i].Coverage
        IN  /\ T > 0 => (p.kind = "num" /\ p.n * T = 100 * C * p.d)
            /\ bs = <<Block(1, 5, 3, 0), Block(6, 10, 2, 2)>> => p = Forty
            /\ bs = <<Block(1, 5, 3, 2)>> => p = Hundred

C3_Witness ==
    \E i \in DOMAIN d.Files :
        /\ profiles[i].Blocks = <<Block(1, 5, 3, 0), Block(6, 10, 2, 2)>>
        /\ d.Files[i].Coverage = Forty

\* C4: the range strings in a file's data-line attribute are exactly the
\* "start-end" strings of its blocks with Count = 0, each of them once; two
\* blocks (10,20,5,0) give only "10-20".
C4_UncoveredRanges ==
    \A i \in DOMAIN d.Files :
        LET bs == profiles[i].Blocks
            got == RangeStrings(d.Files[i].Body.dataLine)
        IN  /\ Range(got) = {RangeText(bs[j]) : j \in {x \in DOMAIN bs : bs[x].Count = 0}}
            /\ Len(got) = Cardinality(Range(got))
            /\ bs = <<Block(10, 20, 5, 0), Block(10, 20, 5, 0)>>
                  => d.Files[i].Body.dataLine = <<"1", "0", "-", "2", "0">>

C4_Witness ==
    \E i \in DOMAIN d.Files :
        /\ profiles[i].Blocks = <<Block(10, 20, 5, 0), Block(10, 20, 5, 0)>>
        /\ d.Files[i].Body.dataLine = <<"1", "0", "-", "2", "0">>

\* product of the denominators of the coverages of files[1..m]
RECURSIVE DenProd(_, _)
DenProd(files, m) == IF m = 0 THEN 1 ELSE files[m].Coverage.d * DenProd(files, m - 1)

\* sum of the coverages of files[1..m], as a numerator over D
RECURSIVE NumSum(_, _, _)
NumSum(files, m, D) ==
    IF m = 0 THEN 0
    ELSE files[m].Coverage.n * (D \div files[m].Coverage.d) + NumSum(files, m - 1, D)

\* C5: for N >= 1 files the aggregate is the unweighted mean (p1+...+pN)/N of
\* the files' coverages.
C5_AggregateIsMean ==
    (totalCov # Unset /\ Len(d.Files) >= 1) =>
        LET N == Len(d.Files)
            D == DenProd(d.Files, N)
        IN  /\ totalCov.kind = "num"
            /\ totalCov.n * D * N = NumSum(d.Files, N, D) * totalCov.d

\* two files of 3 and 5 statements: the mean is 70, the statement-weighted ratio 62.5
C5_Witness ==
    /\ totalCov = [kind |-> "num", n |-> 70, d |-> 1]
    /\ Len(d.Files) = 2
    /\ profiles[1].Blocks = <<Block(1, 5, 3, 2)>>
    /\ profiles[2].Blocks = <<Block(1, 5, 3, 0), Block(6, 10, 2, 2)>>
    /\ 70 * (3 + 5) # 100 * (3 + 2)

\* C6: a run that fails never leaves report content in the output file (at most
\* an empty file).
C6_NoPartialOutput == Failed => out \in {"none", "empty"}

\* C7: the report has one entry per file of the profile, in the profile's order,
\* named after the file, with ID equal to its 0-based position.
C7_OrderAndIDs ==
    /\ \A i \in DOMAIN d.Files :
          /\ i <= Len(profiles)
          /\ d.Files[i].Name = profiles[i].FileName
          /\ d.Files[i].ID = i - 1
    /\ LoopOK => Len(d.Files) = Len(profiles)

C7_Witness ==
    /\ LoopOK
    /\ Len(d.Files) = 2
    /\ d.Files[2].ID = 1
    /\ d.Files[1].Name # d.Files[2].Name

\* C8: the report's Set flag is true iff some file profile has mode "set"
\* (false for "count", "atomic" and for zero files), whatever the hit counts.
C8_SetFlag ==
    LoopOK => (d.Set <=> \E i \in DOMAIN profiles : profiles[i].Mode = "set")

C8_Witness ==
    /\ LoopOK
    /\ d.Set
    /\ \E i \in DOMAIN profiles : \E j \in DOMAIN profiles[i].Blocks :
          profiles[i].Blocks[j].Count > 1

\* C9: percentCovered counts a block record that appears several times once: the
\* coverage of a file equals that of its blocks with the duplicates removed.
C9_NoDoubleCounting ==
    \A i \in DOMAIN d.Files :
        d.Files[i].Coverage = percentCovered([profiles[i] EXCEPT !.Blocks = Dedup(@)])

\* C10: when finding or reading the source of a file fails, no later file is
\* processed and htmlOutput returns the error with no directory or file created
\* and no browser started; an output file exists only after every file of the
\* profile has been assembled.
C10_FailFast ==
    /\ err \in {"findFile", "ReadFile"} =>
          /\ pc = "return"
          /\ ~tmpDir /\ out = "none" /\ browser = "none"
          /\ visited = 0..Len(d.Files)
    /\ (tmpDir \/ out # "none") =>
          /\ Len(d.Files) = Len(profiles)
          /\ visited = 0..(Len(profiles) - 1)

C10_Witness ==
    /\ err \in {"findFile", "ReadFile"}
    /\ pc = "return"
    /\ Len(d.Files) = 0
    /\ Len(profiles) = 2
    /\ visited = {0}

====
